---------------------------- MODULE Spec2Model ----------------------------
(***************************************************************************)
(* A model of ChessVar.py: a chess variant that is won by capturing all    *)
(* of the opponent's pieces of one kind.                                   *)
(*                                                                         *)
(* The state is the ChessVar object: its ChessBoard (the 8x8 grid and the  *)
(* dictionary of piece counts), the player turn and the game state,        *)
(* together with what the last make_move call returned.  What a call       *)
(* prints is part of its outcome (make_move_outcome) and is not kept.      *)
(* Rows and columns are the indices of the Python lists, 0..7.  A notation *)
(* token is a Python string, modelled as the sequence of its characters.   *)
(***************************************************************************)
EXTENDS Integers, Sequences, FiniteSets, TLC

VARIABLES
    board,          \* ChessBoard._board: row -> col -> piece or None
    pieces,         \* ChessBoard._current_pieces_on_board: colour -> kind -> count
    player_turn,    \* ChessVar._player_turn
    game_state,     \* ChessVar._game_state
    result,         \* what the last make_move call returned: "True", "False" ("None": no call yet)
    moves           \* number of applied moves so far (bounded by MaxMoves)

vars == <<board, pieces, player_turn, game_state, result, moves>>

\* The program's state proper, without the record of the last call.
game == <<board, pieces, player_turn, game_state>>

-----------------------------------------------------------------------------
(* Bounds of the model *)

\* make_move is called only while fewer than MaxMoves moves have been applied.
MaxMoves == 7

-----------------------------------------------------------------------------
(* Pieces *)

Colors == {"WHITE", "BLACK"}
Kinds == {"King", "Queen", "Rook", "Bishop", "Knight", "Pawn"}
Rows == 0..7
Cols == 0..7

\* Python's None in a cell of the grid.
None == [color |-> "None", kind |-> "None"]

\* An object of the class kind(color).
P(color, kind) == [color |-> color, kind |-> kind]

Abs(x) == IF x < 0 THEN -x ELSE x

\* ChessBoard.get_piece_at
get_piece_at(b, row, col) == b[row][col]

-----------------------------------------------------------------------------
(* Messages printed by the program, as tags *)

MsgGameOver == "there's already a winner"
MsgSameSquare == "same square"
MsgBadFrom == "invalid input for the square moved from"
MsgBadTo == "invalid input for the square moved to"
MsgNoPiece == "no piece to move"
MsgOtherPlayer == "can't move the other player's piece"
MsgOwnPiece == "can't capture your own piece"
MsgIllegal == "illegal move"
MsgJump == "can't jump over any pieces"
MsgVertical == "can't capture a piece vertically"
MsgDiagonal == "can't move pawns diagonally if there's no piece to capture"
MsgBoard == "board and game status"
\* A legality check that prints nothing returns True.
OK == "OK"

-----------------------------------------------------------------------------
(* Piece: the shared colour check and the path helpers *)

\* Faulty variant of Piece_is_valid_move: the test of the to square is left out.
Piece_is_valid_move_no_own_check(b, color, turn, from_row, from_col, to_row, to_col) ==
    IF color # turn THEN MsgOtherPlayer ELSE OK

\* Piece.is_valid_move, for a piece of colour `color`: the message it prints,
\* OK when it returns True.
Piece_is_valid_move(b, color, turn, from_row, from_col, to_row, to_col) ==
    IF color # turn
    THEN MsgOtherPlayer
    ELSE LET piece_at_to_square == get_piece_at(b, to_row, to_col)
         IN  IF piece_at_to_square # None /\ piece_at_to_square.color = turn
             THEN MsgOwnPiece
             ELSE OK

\* The while loops of the path helpers: (row, col) is the square the loop stands
\* on, (d_row, d_col) the step it takes, and it stops when the next column
\* (the next row, for a vertical path) is the destination's.
RECURSIVE walk_cols(_, _, _, _, _, _)
walk_cols(b, row, col, d_row, d_col, to_col) ==
    IF col + d_col = to_col
    THEN TRUE
    ELSE IF get_piece_at(b, row + d_row, col + d_col) = None
         THEN walk_cols(b, row + d_row, col + d_col, d_row, d_col, to_col)
         ELSE FALSE

RECURSIVE walk_rows(_, _, _, _, _)
walk_rows(b, row, col, d_row, to_row) ==
    IF row + d_row = to_row
    THEN TRUE
    ELSE IF get_piece_at(b, row + d_row, col) = None
         THEN walk_rows(b, row + d_row, col, d_row, to_row)
         ELSE FALSE

\* Faulty variant of check_horizontal_path: the loop towards the left stops
\* one square early.
check_horizontal_path_stops_early(b, from_row, from_col, to_col) ==
    IF from_col < to_col
    THEN walk_cols(b, from_row, from_col, 0, 1, to_col)
    ELSE IF from_col > to_col + 1
         THEN walk_cols(b, from_row, from_col, 0, -1, to_col + 1)
         ELSE TRUE

\* Piece.check_horizontal_path
check_horizontal_path(b, from_row, from_col, to_col) ==
    IF from_col < to_col
    THEN walk_cols(b, from_row, from_col, 0, 1, to_col)
    ELSE IF from_col > to_col
         THEN walk_cols(b, from_row, from_col, 0, -1, to_col)
         ELSE TRUE

\* Piece.check_vertical_path
check_vertical_path(b, from_row, from_col, to_row) ==
    IF from_row < to_row
    THEN walk_rows(b, from_row, from_col, 1, to_row)
    ELSE IF from_row > to_row
         THEN walk_rows(b, from_row, from_col, -1, to_row)
         ELSE TRUE

\* Faulty variant of check_diagonal_path: the fourth direction is left out.
check_diagonal_path_three(b, from_row, from_col, to_row, to_col) ==
    IF from_row > to_row /\ from_col < to_col
    THEN walk_cols(b, from_row, from_col, -1, 1, to_col)
    ELSE IF from_row < to_row /\ from_col < to_col
    THEN walk_cols(b, from_row, from_col, 1, 1, to_col)
    ELSE IF from_row < to_row /\ from_col > to_col
    THEN walk_cols(b, from_row, from_col, 1, -1, to_col)
    ELSE TRUE

\* Piece.check_diagonal_path
check_diagonal_path(b, from_row, from_col, to_row, to_col) ==
    IF from_row > to_row /\ from_col < to_col
    THEN walk_cols(b, from_row, from_col, -1, 1, to_col)
    ELSE IF from_row < to_row /\ from_col < to_col
    THEN walk_cols(b, from_row, from_col, 1, 1, to_col)
    ELSE IF from_row < to_row /\ from_col > to_col
    THEN walk_cols(b, from_row, from_col, 1, -1, to_col)
    ELSE IF from_row > to_row /\ from_col > to_col
    THEN walk_cols(b, from_row, from_col, -1, -1, to_col)
    ELSE TRUE

-----------------------------------------------------------------------------
(* The six kinds: each is_valid_move gives the message it prints, OK when   *)
(* it returns True.                                                        *)

\* Faulty variant of King_is_valid_move: the comparisons are "> 2".
King_is_valid_move_two_steps(b, color, turn, from_row, from_col, to_row, to_col) ==
    LET super == Piece_is_valid_move(b, color, turn, from_row, from_col, to_row, to_col)
    IN  IF super # OK
        THEN super
        ELSE IF Abs(to_col - from_col) > 2 \/ Abs(to_row - from_row) > 2
             THEN MsgIllegal
             ELSE OK

\* King.is_valid_move
King_is_valid_move(b, color, turn, from_row, from_col, to_row, to_col) ==
    LET super == Piece_is_valid_move(b, color, turn, from_row, from_col, to_row, to_col)
    IN  IF super # OK
        THEN super
        ELSE IF Abs(to_col - from_col) > 1 \/ Abs(to_row - from_row) > 1
             THEN MsgIllegal
             ELSE OK

\* Faulty variant of Rook_is_valid_move: the move along the column is checked
\* with the helper for rows.
Rook_is_valid_move_rows_helper(b, color, turn, from_row, from_col, to_row, to_col) ==
    LET super == Piece_is_valid_move(b, color, turn, from_row, from_col, to_row, to_col)
    IN  IF super # OK
        THEN super
        ELSE IF to_row = from_row
             THEN IF ~check_horizontal_path(b, from_row, from_col, to_col)
                  THEN MsgJump ELSE OK
             ELSE IF to_col = from_col
             THEN IF ~check_horizontal_path(b, from_row, from_col, to_col)
                  THEN MsgJump ELSE OK
             ELSE MsgIllegal

\* Rook.is_valid_move
Rook_is_valid_move(b, color, turn, from_row, from_col, to_row, to_col) ==
    LET super == Piece_is_valid_move(b, color, turn, from_row, from_col, to_row, to_col)
    IN  IF super # OK
        THEN super
        ELSE IF to_row = from_row
             THEN IF ~check_horizontal_path(b, from_row, from_col, to_col)
                  THEN MsgJump ELSE OK
             ELSE IF to_col = from_col
             THEN IF ~check_vertical_path(b, from_row, from_col, to_row)
                  THEN MsgJump ELSE OK
             ELSE MsgIllegal

\* Bishop.is_valid_move
Bishop_is_valid_move(b, color, turn, from_row, from_col, to_row, to_col) ==
    LET super == Piece_is_valid_move(b, color, turn, from_row, from_col, to_row, to_col)
    IN  IF super # OK
        THEN super
        ELSE IF Abs(to_col - from_col) = Abs(to_row - from_row)
             THEN IF ~check_diagonal_path(b, from_row, from_col, to_row, to_col)
                  THEN MsgJump ELSE OK
             ELSE MsgIllegal

\* Faulty variant of Queen_is_valid_move: the diagonal branch is left out.
Queen_is_valid_move_straight(b, color, turn, from_row, from_col, to_row, to_col) ==
    LET super == Piece_is_valid_move(b, color, turn, from_row, from_col, to_row, to_col)
    IN  IF super # OK
        THEN super
        ELSE IF to_row = from_row
             THEN IF ~check_horizontal_path(b, from_row, from_col, to_col)
                  THEN MsgJump ELSE OK
             ELSE IF to_col = from_col
             THEN IF ~check_vertical_path(b, from_row, from_col, to_row)
                  THEN MsgJump ELSE OK
             ELSE MsgIllegal

\* Queen.is_valid_move
Queen_is_valid_move(b, color, turn, from_row, from_col, to_row, to_col) ==
    LET super == Piece_is_valid_move(b, color, turn, from_row, from_col, to_row, to_col)
    IN  IF super # OK
        THEN super
        ELSE IF to_row = from_row
             THEN IF ~check_horizontal_path(b, from_row, from_col, to_col)
                  THEN MsgJump ELSE OK
             ELSE IF to_col = from_col
             THEN IF ~check_vertical_path(b, from_row, from_col, to_row)
                  THEN MsgJump ELSE OK
             ELSE IF Abs(to_col - from_col) = Abs(to_row - from_row)
             THEN IF ~check_diagonal_path(b, from_row, from_col, to_row, to_col)
                  THEN MsgJump ELSE OK
             ELSE MsgIllegal

\* Faulty variant of Knight_is_valid_move: the two-row jump is checked with
\* the helper for columns, as a rook's move is.
Knight_is_valid_move_no_jump(b, color, turn, from_row, from_col, to_row, to_col) ==
    LET super == Piece_is_valid_move(b, color, turn, from_row, from_col, to_row, to_col)
    IN  IF super # OK
        THEN super
        ELSE IF Abs(to_row - from_row) = 1 /\ Abs(to_col - from_col) = 2
             THEN OK
             ELSE IF Abs(to_row - from_row) = 2 /\ Abs(to_col - from_col) = 1
             THEN IF ~check_vertical_path(b, from_row, from_col, to_row)
                  THEN MsgJump ELSE OK
             ELSE MsgIllegal

\* Knight.is_valid_move
Knight_is_valid_move(b, color, turn, from_row, from_col, to_row, to_col) ==
    LET super == Piece_is_valid_move(b, color, turn, from_row, from_col, to_row, to_col)
    IN  IF super # OK
        THEN super
        ELSE IF Abs(to_row - from_row) = 1 /\ Abs(to_col - from_col) = 2
             THEN OK
             ELSE IF Abs(to_row - from_row) = 2 /\ Abs(to_col - from_col) = 1
             THEN OK
             ELSE MsgIllegal

\* Pawn.is_valid_move, turn == 'BLACK': black pawns move down the board.
Pawn_black(b, from_row, from_col, to_row, to_col) ==
    IF from_row + 1 = to_row /\ from_col = to_col
    THEN IF get_piece_at(b, to_row, to_col) # None THEN MsgVertical ELSE OK
    ELSE IF from_row = 1 /\ to_row = 3 /\ from_col = to_col
    THEN IF get_piece_at(b, from_row + 1, to_col) # None
         THEN MsgVertical
         ELSE IF get_piece_at(b, to_row, to_col) # None THEN MsgVertical ELSE OK
    ELSE IF \/ from_row + 1 = to_row /\ from_col + 1 = to_col
            \/ from_row + 1 = to_row /\ from_col - 1 = to_col
    THEN IF get_piece_at(b, to_row, to_col) = None THEN MsgDiagonal ELSE OK
    ELSE MsgIllegal

\* Faulty variant of Pawn_white: a step of one row is taken either way.
Pawn_white_either_way(b, from_row, from_col, to_row, to_col) ==
    IF Abs(from_row - to_row) = 1 /\ from_col = to_col
    THEN IF get_piece_at(b, to_row, to_col) # None THEN MsgVertical ELSE OK
    ELSE IF from_row = 6 /\ to_row = 4 /\ from_col = to_col
    THEN IF get_piece_at(b, from_row - 1, to_col) # None
         THEN MsgVertical
         ELSE IF get_piece_at(b, to_row, to_col) # None THEN MsgVertical ELSE OK
    ELSE IF \/ from_row - 1 = to_row /\ from_col + 1 = to_col
            \/ from_row - 1 = to_row /\ from_col - 1 = to_col
    THEN IF get_piece_at(b, to_row, to_col) = None THEN MsgDiagonal ELSE OK
    ELSE MsgIllegal

\* Faulty variant of Pawn_white: the long first step ends on row 3.
Pawn_white_three_rows(b, from_row, from_col, to_row, to_col) ==
    IF from_row - 1 = to_row /\ from_col = to_col
    THEN IF get_piece_at(b, to_row, to_col) # None THEN MsgVertical ELSE OK
    ELSE IF from_row = 6 /\ to_row = 3 /\ from_col = to_col
    THEN IF get_piece_at(b, from_row - 1, to_col) # None
         THEN MsgVertical
         ELSE IF get_piece_at(b, to_row, to_col) # None THEN MsgVertical ELSE OK
    ELSE IF \/ from_row - 1 = to_row /\ from_col + 1 = to_col
            \/ from_row - 1 = to_row /\ from_col - 1 = to_col
    THEN IF get_piece_at(b, to_row, to_col) = None THEN MsgDiagonal ELSE OK
    ELSE MsgIllegal

\* Faulty variant of Pawn_white: the square stepped over is not looked at.
Pawn_white_steps_over(b, from_row, from_col, to_row, to_col) ==
    IF from_row - 1 = to_row /\ from_col = to_col
    THEN IF get_piece_at(b, to_row, to_col) # None THEN MsgVertical ELSE OK
    ELSE IF from_row = 6 /\ to_row = 4 /\ from_col = to_col
    THEN IF get_piece_at(b, to_row, to_col) # None THEN MsgVertical ELSE OK
    ELSE IF \/ from_row - 1 = to_row /\ from_col + 1 = to_col
            \/ from_row - 1 = to_row /\ from_col - 1 = to_col
    THEN IF get_piece_at(b, to_row, to_col) = None THEN MsgDiagonal ELSE OK
    ELSE MsgIllegal

\* Pawn.is_valid_move, turn == 'WHITE': white pawns move up the board.
Pawn_white(b, from_row, from_col, to_row, to_col) ==
    IF from_row - 1 = to_row /\ from_col = to_col
    THEN IF get_piece_at(b, to_row, to_col) # None THEN MsgVertical ELSE OK
    ELSE IF from_row = 6 /\ to_row = 4 /\ from_col = to_col
    THEN IF get_piece_at(b, from_row - 1, to_col) # None
         THEN MsgVertical
         ELSE IF get_piece_at(b, to_row, to_col) # None THEN MsgVertical ELSE OK
    ELSE IF \/ from_row - 1 = to_row /\ from_col + 1 = to_col
            \/ from_row - 1 = to_row /\ from_col - 1 = to_col
    THEN IF get_piece_at(b, to_row, to_col) = None THEN MsgDiagonal ELSE OK
    ELSE MsgIllegal

\* Faulty variant of Pawn.is_valid_move: the two colours' rules are swapped.
Pawn_is_valid_move_swapped(b, color, turn, from_row, from_col, to_row, to_col) ==
    LET super == Piece_is_valid_move(b, color, turn, from_row, from_col, to_row, to_col)
    IN  IF super # OK
        THEN super
        ELSE IF turn = "BLACK"
             THEN Pawn_white(b, from_row, from_col, to_row, to_col)
             ELSE Pawn_black(b, from_row, from_col, to_row, to_col)

\* Pawn.is_valid_move
Pawn_is_valid_move(b, color, turn, from_row, from_col, to_row, to_col) ==
    LET super == Piece_is_valid_move(b, color, turn, from_row, from_col, to_row, to_col)
    IN  IF super # OK
        THEN super
        ELSE IF turn = "BLACK"
             THEN Pawn_black(b, from_row, from_col, to_row, to_col)
             ELSE Pawn_white(b, from_row, from_col, to_row, to_col)

\* piece_to_move.is_valid_move(...): Python dispatches on the class of the piece.
is_valid_move(b, piece, turn, from_row, from_col, to_row, to_col) ==
    CASE piece.kind = "King" ->
            King_is_valid_move(b, piece.color, turn, from_row, from_col, to_row, to_col)
      [] piece.kind = "Queen" ->
            Queen_is_valid_move(b, piece.color, turn, from_row, from_col, to_row, to_col)
      [] piece.kind = "Rook" ->
            Rook_is_valid_move(b, piece.color, turn, from_row, from_col, to_row, to_col)
      [] piece.kind = "Bishop" ->
            Bishop_is_valid_move(b, piece.color, turn, from_row, from_col, to_row, to_col)
      [] piece.kind = "Knight" ->
            Knight_is_valid_move(b, piece.color, turn, from_row, from_col, to_row, to_col)
      [] piece.kind = "Pawn" ->
            Pawn_is_valid_move(b, piece.color, turn, from_row, from_col, to_row, to_col)

-----------------------------------------------------------------------------
(* ChessBoard *)

BackRank(color) ==
    <<P(color, "Rook"), P(color, "Knight"), P(color, "Bishop"), P(color, "Queen"),
      P(color, "King"), P(color, "Bishop"), P(color, "Knight"), P(color, "Rook")>>

PawnRank(color) == [i \in 1..8 |-> P(color, "Pawn")]

EmptyRank == [i \in 1..8 |-> None]

\* ChessBoard.__init__: self._board, indexed from 0 as the Python lists are.
InitialBoard ==
    LET rows == <<BackRank("BLACK"), PawnRank("BLACK"), EmptyRank, EmptyRank,
                  EmptyRank, EmptyRank, PawnRank("WHITE"), BackRank("WHITE")>>
    IN  [row \in Rows |-> [col \in Cols |-> rows[row + 1][col + 1]]]

\* ChessBoard.__init__: self._current_pieces_on_board
InitialPieces ==
    [color \in Colors |->
        [kind \in Kinds |->
            CASE kind = "King" -> 1
              [] kind = "Queen" -> 1
              [] kind = "Rook" -> 2
              [] kind = "Bishop" -> 2
              [] kind = "Knight" -> 2
              [] kind = "Pawn" -> 8]]

\* Faulty variant of remove_piece_from_board: "=- 1" written for "-= 1".
remove_piece_from_board_assigns(cnt, color, piece_name) ==
    [cnt EXCEPT ![color][piece_name] = -1]

\* ChessBoard.remove_piece_from_board: the dictionary after the decrement.
remove_piece_from_board(cnt, color, piece_name) ==
    [cnt EXCEPT ![color][piece_name] = @ - 1]

\* ChessBoard.move_piece: the dictionary of counts after the move.
move_piece_pieces(b, cnt, to_row, to_col) ==
    LET piece_at_to_square == b[to_row][to_col]
    IN  IF piece_at_to_square # None
        THEN remove_piece_from_board(cnt, piece_at_to_square.color, piece_at_to_square.kind)
        ELSE cnt

\* Faulty variant of move_piece_board: the from square is not cleared.
move_piece_board_keeps_from(b, from_row, from_col, to_row, to_col) ==
    [b EXCEPT ![to_row][to_col] = b[from_row][from_col]]

\* ChessBoard.move_piece: the grid after the move (the second assignment acts
\* on the grid the first one left).
move_piece_board(b, from_row, from_col, to_row, to_col) ==
    LET b1 == [b EXCEPT ![to_row][to_col] = b[from_row][from_col]]
    IN  [b1 EXCEPT ![from_row][from_col] = None]

-----------------------------------------------------------------------------
(* ChessVar *)

\* str.upper() on one character, for the characters the tokens below use.
Upper(ch) ==
    CASE ch = "a" -> "A" [] ch = "b" -> "B" [] ch = "c" -> "C" [] ch = "d" -> "D"
      [] ch = "e" -> "E" [] ch = "f" -> "F" [] ch = "g" -> "G" [] ch = "h" -> "H"
      [] ch = "i" -> "I"
      [] OTHER -> ch

valid_letters == {"A", "B", "C", "D", "E", "F", "G", "H"}
valid_numbers == {"1", "2", "3", "4", "5", "6", "7", "8"}

\* Faulty variant of is_valid_input: the file letter of from_square is not upper-cased.
is_valid_input_no_upper(from_square, to_square) ==
    IF from_square = to_square
    THEN MsgSameSquare
    ELSE IF \/ Len(from_square) # 2
            \/ from_square[1] \notin valid_letters
            \/ from_square[2] \notin valid_numbers
    THEN MsgBadFrom
    ELSE IF \/ Len(to_square) # 2
            \/ Upper(to_square[1]) \notin valid_letters
            \/ to_square[2] \notin valid_numbers
    THEN MsgBadTo
    ELSE OK

\* Faulty variant of is_valid_input: the rank of from_square is not tested.
is_valid_input_any_rank(from_square, to_square) ==
    IF from_square = to_square
    THEN MsgSameSquare
    ELSE IF \/ Len(from_square) # 2
            \/ Upper(from_square[1]) \notin valid_letters
    THEN MsgBadFrom
    ELSE IF \/ Len(to_square) # 2
            \/ Upper(to_square[1]) \notin valid_letters
            \/ to_square[2] \notin valid_numbers
    THEN MsgBadTo
    ELSE OK

\* ChessVar.is_valid_input: the message it prints, OK when it returns True.
\* A Python string is the sequence of its characters, indexed from 1 here.
is_valid_input(from_square, to_square) ==
    IF from_square = to_square
    THEN MsgSameSquare
    ELSE IF \/ Len(from_square) # 2
            \/ Upper(from_square[1]) \notin valid_letters
            \/ from_square[2] \notin valid_numbers
    THEN MsgBadFrom
    ELSE IF \/ Len(to_square) # 2
            \/ Upper(to_square[1]) \notin valid_letters
            \/ to_square[2] \notin valid_numbers
    THEN MsgBadTo
    ELSE OK

letter_to_index(ch) ==
    CASE ch = "A" -> 0 [] ch = "B" -> 1 [] ch = "C" -> 2 [] ch = "D" -> 3
      [] ch = "E" -> 4 [] ch = "F" -> 5 [] ch = "G" -> 6 [] ch = "H" -> 7

\* Faulty variant of number_to_index: rank 1 is taken for row 0.
number_to_index_from_one(ch) ==
    CASE ch = "1" -> 0 [] ch = "2" -> 1 [] ch = "3" -> 2 [] ch = "4" -> 3
      [] ch = "5" -> 4 [] ch = "6" -> 5 [] ch = "7" -> 6 [] ch = "8" -> 7

number_to_index(ch) ==
    CASE ch = "8" -> 0 [] ch = "7" -> 1 [] ch = "6" -> 2 [] ch = "5" -> 3
      [] ch = "4" -> 4 [] ch = "3" -> 5 [] ch = "2" -> 6 [] ch = "1" -> 7

\* ChessVar.algebraic_to_indices: <<row_index, col_index>>
algebraic_to_indices(square) ==
    <<number_to_index(square[2]), letter_to_index(Upper(square[1]))>>

\* Faulty variant of set_game_state: the winners are the wrong way round.
set_game_state_swapped(st, cnt) ==
    LET st1 == IF \E kind \in Kinds : cnt["WHITE"][kind] = 0 THEN "WHITE_WON" ELSE st
    IN  IF \E kind \in Kinds : cnt["BLACK"][kind] = 0 THEN "BLACK_WON" ELSE st1

\* Faulty variant of set_game_state: only the counts of the kings are tested.
set_game_state_kings_only(st, cnt) ==
    LET st1 == IF cnt["WHITE"]["King"] = 0 THEN "BLACK_WON" ELSE st
    IN  IF cnt["BLACK"]["King"] = 0 THEN "WHITE_WON" ELSE st1

\* ChessVar.set_game_state: the game state after it, from the state before and
\* the counts: the test of BLACK's counts comes second and overrides.
set_game_state(st, cnt) ==
    LET st1 == IF \E kind \in Kinds : cnt["WHITE"][kind] = 0 THEN "BLACK_WON" ELSE st
    IN  IF \E kind \in Kinds : cnt["BLACK"][kind] = 0 THEN "WHITE_WON" ELSE st1

\* Faulty variant of set_player_turn: the else branch assigns 'BLACK' too.
set_player_turn_stuck(turn) == IF turn = "WHITE" THEN "BLACK" ELSE "BLACK"

\* ChessVar.set_player_turn: the turn after it.
set_player_turn(turn) == IF turn = "WHITE" THEN "BLACK" ELSE "WHITE"

\* Faulty variant of make_move_check: the test of the game state is left out.
make_move_check_no_game_over(b, turn, st, from_square, to_square) ==
    LET input == is_valid_input(from_square, to_square)
    IN  IF input # OK
        THEN input
        ELSE LET from == algebraic_to_indices(from_square)
                 to == algebraic_to_indices(to_square)
                 piece_to_move == get_piece_at(b, from[1], from[2])
             IN  IF piece_to_move = None
                 THEN MsgNoPiece
                 ELSE is_valid_move(b, piece_to_move, turn,
                                    from[1], from[2], to[1], to[2])

\* Faulty variant of make_move_check: the inputs are validated before the game state
\* is tested.
make_move_check_input_first(b, turn, st, from_square, to_square) ==
    LET input == is_valid_input(from_square, to_square)
    IN  IF input # OK
        THEN input
        ELSE IF st # "UNFINISHED"
             THEN MsgGameOver
             ELSE LET from == algebraic_to_indices(from_square)
                      to == algebraic_to_indices(to_square)
                      piece_to_move == get_piece_at(b, from[1], from[2])
                  IN  IF piece_to_move = None
                      THEN MsgNoPiece
                      ELSE is_valid_move(b, piece_to_move, turn,
                                         from[1], from[2], to[1], to[2])

\* ChessVar.make_move, the checks before the move is made: the message of the
\* first check that fails, OK when none does.
make_move_check(b, turn, st, from_square, to_square) ==
    IF st # "UNFINISHED"
    THEN MsgGameOver
    ELSE LET input == is_valid_input(from_square, to_square)
         IN  IF input # OK
             THEN input
             ELSE LET from == algebraic_to_indices(from_square)
                      to == algebraic_to_indices(to_square)
                      piece_to_move == get_piece_at(b, from[1], from[2])
                  IN  IF piece_to_move = None
                      THEN MsgNoPiece
                      ELSE is_valid_move(b, piece_to_move, turn,
                                         from[1], from[2], to[1], to[2])

\* Faulty variant of rejected: the turn is set before the return False.
rejected_sets_turn(b, cnt, turn, st, msg) ==
    [board |-> b, pieces |-> cnt, player_turn |-> set_player_turn(turn),
     game_state |-> st, result |-> "False", message |-> msg]

\* ChessVar.make_move, a return False: nothing is assigned.
rejected(b, cnt, turn, st, msg) ==
    [board |-> b, pieces |-> cnt, player_turn |-> turn, game_state |-> st,
     result |-> "False", message |-> msg]

\* Faulty variant of applied: the turn is set only if the game state is still
\* UNFINISHED.
applied_keeps_turn_at_end(b, cnt, turn, st, from_square, to_square) ==
    LET from == algebraic_to_indices(from_square)
        to == algebraic_to_indices(to_square)
        cnt1 == move_piece_pieces(b, cnt, to[1], to[2])
        st1 == set_game_state(st, cnt1)
    IN  [board |-> move_piece_board(b, from[1], from[2], to[1], to[2]),
         pieces |-> cnt1,
         player_turn |-> IF st1 = "UNFINISHED" THEN set_player_turn(turn) ELSE turn,
         game_state |-> st1,
         result |-> "True", message |-> MsgBoard]

\* ChessVar.make_move, the else branch: move the piece, set the game state, set
\* the player turn, display the board and the game status, return True.
applied(b, cnt, turn, st, from_square, to_square) ==
    LET from == algebraic_to_indices(from_square)
        to == algebraic_to_indices(to_square)
        cnt1 == move_piece_pieces(b, cnt, to[1], to[2])
    IN  [board |-> move_piece_board(b, from[1], from[2], to[1], to[2]),
         pieces |-> cnt1,
         player_turn |-> set_player_turn(turn),
         game_state |-> set_game_state(st, cnt1),
         result |-> "True", message |-> MsgBoard]

\* ChessVar.make_move(from_square, to_square) called in the state (b, cnt, turn,
\* st): the state it leaves, what it returns and what it prints.
make_move_outcome(b, cnt, turn, st, from_square, to_square) ==
    LET check == make_move_check(b, turn, st, from_square, to_square)
    IN  IF check # OK
        THEN rejected(b, cnt, turn, st, check)
        ELSE applied(b, cnt, turn, st, from_square, to_square)

\* The call make_move(from_square, to_square) in the current state.
Call(from_square, to_square) ==
    make_move_outcome(board, pieces, player_turn, game_state, from_square, to_square)

\* ChessVar.make_move(from_square, to_square): one call, whole.
make_move(from_square, to_square) ==
    \E out \in {Call(from_square, to_square)} :
        /\ board' = out.board
        /\ pieces' = out.pieces
        /\ player_turn' = out.player_turn
        /\ game_state' = out.game_state
        /\ result' = out.result
        /\ moves' = IF out.result = "True" THEN moves + 1 ELSE moves

-----------------------------------------------------------------------------
(* The calls the players make *)

\* A well-formed token: file letter, rank digit.
Tok(file, rank) == <<file, rank>>

\* The squares the players name.  They let either side win within MaxMoves
\* moves (1. e3 f6 2. Qh5 e6 3. Qxe8 takes BLACK's only king; 1. f3 e6 2. e3 Qh4
\* 3. Qe2 Qxe1 takes WHITE's), and hold pawns, a knight, queens and kings,
\* squares that stay empty, paths that are blocked and paths that open.
Squares ==
    {Tok("D", "1"), Tok("E", "1"), Tok("G", "1"), Tok("E", "2"), Tok("F", "2"),
     Tok("E", "3"), Tok("F", "3"), Tok("H", "4"), Tok("H", "5"),
     Tok("E", "6"), Tok("F", "6"), Tok("E", "7"), Tok("F", "7"),
     Tok("D", "8"), Tok("E", "8")}

\* Well-formed tokens with a lower-case file letter.
LowerSquares == {Tok("e", "2"), Tok("f", "7")}

\* Strings that are no token: empty, too short, too long, a file or a rank
\* outside the board, file and rank swapped.
Malformed == {<<>>, <<"E">>, <<"E", "2", "2">>, <<"I", "2">>, <<"i", "2">>,
              <<"E", "9">>, <<"E", "0">>, <<"2", "E">>}

\* The tokens that are paired with the unusual ones above.
Partners == {Tok("E", "2"), Tok("E", "3")}

\* The argument pairs of the calls: every pair of squares, and every unusual
\* token as either argument, beside a partner or itself.
Calls ==
    LET Unusual == LowerSquares \cup Malformed
    IN  (Squares \X Squares) \cup (Unusual \X Partners)
            \cup (Partners \X Unusual) \cup {<<u, u>> : u \in Unusual}

Init ==
    /\ board = InitialBoard
    /\ pieces = InitialPieces
    /\ player_turn = "WHITE"
    /\ game_state = "UNFINISHED"
    /\ result = "None"
    /\ moves = 0

MakeMove ==
    /\ moves < MaxMoves
    /\ \E call \in Calls : make_move(call[1], call[2])

Next == MakeMove

Spec == Init /\ [][Next]_vars

-----------------------------------------------------------------------------
(* Vocabulary of the properties *)

Opponent(color) == CHOOSE other \in Colors : other # color

\* The tokens <file A-H or a-h><rank 1-8>.
WellFormedTokens ==
    {<<file, rank>> :
        file \in {"A", "B", "C", "D", "E", "F", "G", "H",
                  "a", "b", "c", "d", "e", "f", "g", "h"},
        rank \in {"1", "2", "3", "4", "5", "6", "7", "8"}}

\* The piece on the square <<row, col>> of the grid b.
At(b, square) == b[square[1]][square[2]]

AllSquares == Rows \X Cols

\* The number of pieces of one colour and kind on the grid.
CountOnGrid(color, kind) ==
    Cardinality({square \in AllSquares : At(board, square) = P(color, kind)})

\* The messages of the rejections that come after the game-ended check.
RejectionMessages ==
    {MsgSameSquare, MsgBadFrom, MsgBadTo, MsgNoPiece, MsgOtherPlayer,
     MsgOwnPiece, MsgIllegal, MsgJump}

-----------------------------------------------------------------------------
(* C1 *)

\* C1: every rejected make_move call (it returns False) leaves the grid, the
\* piece counts, the player turn and the game state as they were.
C1_RejectedChangesNothing ==
    [][result' = "False" => UNCHANGED game]_vars

\* A call was rejected in a game in which pieces have been captured.
C1_Witness ==
    /\ result = "False"
    /\ game_state = "UNFINISHED"
    /\ pieces # InitialPieces

-----------------------------------------------------------------------------
(* C2 *)

\* The conditions under which C2 says a call is applied.
C2_Accepts(from_square, to_square) ==
    /\ game_state = "UNFINISHED"
    /\ from_square \in WellFormedTokens
    /\ to_square \in WellFormedTokens
    /\ from_square # to_square
    /\ LET from == algebraic_to_indices(from_square)
           to == algebraic_to_indices(to_square)
           piece == At(board, from)
       IN  /\ piece # None
           /\ is_valid_move(board, piece, player_turn,
                            from[1], from[2], to[1], to[2]) = OK

\* C2: in every reachable state and for every pair of arguments, make_move
\* applies the move and returns True exactly when the game is UNFINISHED, both
\* tokens are well-formed and distinct, the from square holds a piece and that
\* piece's legality check for the current turn returns true; in every other
\* case it returns False.
C2_AppliedIffAllChecksPass ==
    \A call \in Calls :
        \A out \in {Call(call[1], call[2])} :
            \A accepts \in {C2_Accepts(call[1], call[2])} :
                /\ out.result = "True" <=> accepts
                /\ out.result = "False" <=> ~accepts
                /\ out.board # board <=> accepts

\* A move has been applied, and in the state it left one call is accepted and
\* others are rejected for each of the reasons of an unfinished game.
C2_Witness ==
    /\ result = "True"
    /\ \E call \in Calls : Call(call[1], call[2]).result = "True"
    /\ \A msg \in RejectionMessages :
           \E call \in Calls :
               \A out \in {Call(call[1], call[2])} :
                   out.result = "False" /\ out.message = msg

-----------------------------------------------------------------------------
(* C3 *)

\* C3: in every reachable state, a call that is applied leaves the piece of
\* the from square on the to square, the from square empty and every other
\* square as it was; if the to square held an opposing piece, the count of
\* that piece's colour and kind is lower by 1 and no other count changed, and
\* if it was empty no count changed.
C3_AppliedMoveEffect ==
    \A call \in Calls :
        \A out \in {Call(call[1], call[2])} :
            out.result = "True" =>
                LET from == algebraic_to_indices(call[1])
                    to == algebraic_to_indices(call[2])
                    mover == At(board, from)
                    target == At(board, to)
                IN  /\ mover # None
                    /\ At(out.board, to) = mover
                    /\ At(out.board, from) = None
                    /\ \A square \in AllSquares \ {from, to} :
                           At(out.board, square) = At(board, square)
                    /\ target = None => out.pieces = pieces
                    /\ (target # None /\ target.color # mover.color) =>
                           /\ out.pieces[target.color][target.kind]
                                  = pieces[target.color][target.kind] - 1
                           /\ \A color \in Colors, kind \in Kinds :
                                  <<color, kind>> # <<target.color, target.kind>>
                                      => out.pieces[color][kind] = pieces[color][kind]

\* After an applied move, a call that captures is applied and a call onto an
\* empty square is applied.
C3_Witness ==
    /\ result = "True"
    /\ \E call \in Calls :
           /\ Call(call[1], call[2]).result = "True"
           /\ At(board, algebraic_to_indices(call[2])) # None
    /\ \E call \in Calls :
           /\ Call(call[1], call[2]).result = "True"
           /\ At(board, algebraic_to_indices(call[2])) = None

-----------------------------------------------------------------------------
(* C4 *)

\* C4: in every reachable state, for each colour and kind the stored count is
\* the number of pieces of that colour and kind on the grid.
C4_CountsMatchGrid ==
    \A color \in Colors, kind \in Kinds :
        pieces[color][kind] = CountOnGrid(color, kind)

\* Pieces of both colours have been captured.
C4_Witness ==
    /\ \E kind \in Kinds : pieces["WHITE"][kind] < InitialPieces["WHITE"][kind]
    /\ \E kind \in Kinds : pieces["BLACK"][kind] < InitialPieces["BLACK"][kind]

-----------------------------------------------------------------------------
(* C5 *)

\* C5: the turn starts as WHITE, switches to the other colour after every
\* applied move, the move that ends the game included, and is unchanged
\* after every rejected move.
C5_TurnAlternates ==
    /\ player_turn = "WHITE"
    /\ [][/\ result' = "True" => player_turn' = Opponent(player_turn)
          /\ result' = "False" => player_turn' = player_turn]_vars

\* WHITE's move has ended the game and the turn is BLACK's.
C5_Witness ==
    /\ result = "True"
    /\ game_state = "WHITE_WON"
    /\ player_turn = "BLACK"

-----------------------------------------------------------------------------
(* C6 *)

\* C6 as stated: an applied move flips the turn only if the game state is still
\* UNFINISHED after the win condition has been recomputed, so that after the
\* applied move that ends the game the turn is still that of the player who
\* made it.
C6_TurnKeptWhenGameEnds ==
    [][result' = "True" =>
          (player_turn' # player_turn <=> game_state' = "UNFINISHED")]_vars

\* C6, amended: the move that ends the game is an applied move and flips the
\* turn like any other: after it the turn is that of the opponent of the
\* player who made it.
C6_TurnFlipsWhenGameEnds ==
    [][(game_state = "UNFINISHED" /\ game_state' # "UNFINISHED") =>
          (result' = "True" /\ player_turn' = Opponent(player_turn))]_vars

\* BLACK's move has ended the game and the turn is WHITE's.
C6_Witness ==
    /\ result = "True"
    /\ game_state = "BLACK_WON"
    /\ player_turn = "WHITE"

-----------------------------------------------------------------------------
(* C7 *)

\* C7: the game state starts UNFINISHED and every change of it is from
\* UNFINISHED to WHITE_WON or BLACK_WON: it changes at most once, and once it
\* is WHITE_WON or BLACK_WON it never changes again.
C7_StateChangesOnce ==
    /\ game_state = "UNFINISHED"
    /\ [][game_state' # game_state =>
              /\ game_state = "UNFINISHED"
              /\ game_state' \in {"WHITE_WON", "BLACK_WON"}]_vars

\* BLACK has won, a further call was made, and WHITE could still capture
\* BLACK's only queen or king if the game went on.
C7_Witness ==
    /\ game_state = "BLACK_WON"
    /\ result = "False"
    /\ \E call \in Calls :
           \A out \in {make_move_outcome(board, pieces, player_turn, "UNFINISHED",
                                         call[1], call[2])} :
               /\ out.result = "True"
               /\ \E kind \in Kinds : out.pieces["BLACK"][kind] = 0

-----------------------------------------------------------------------------
(* C8 *)

\* C8: once the game state is WHITE_WON or BLACK_WON, every make_move call is
\* rejected whatever its arguments, and for the reason that the game has
\* ended, whatever else is wrong with the arguments.
C8_RejectedOnceWon ==
    game_state # "UNFINISHED" =>
        \A call \in Calls :
            \A out \in {Call(call[1], call[2])} :
                out.result = "False" /\ out.message = MsgGameOver

\* WHITE has won and a call was rejected; among the calls are a move that
\* would be applied in an unfinished game and calls that would be rejected
\* for another reason.
C8_Witness ==
    /\ game_state = "WHITE_WON"
    /\ result = "False"
    /\ \E call \in Calls :
           make_move_check(board, player_turn, "UNFINISHED", call[1], call[2]) = OK
    /\ \E call \in Calls :
           make_move_check(board, player_turn, "UNFINISHED", call[1], call[2])
               \in {MsgBadFrom, MsgBadTo, MsgSameSquare}

-----------------------------------------------------------------------------
(* C9 *)

\* C9: in every state between make_move calls, the game state is WHITE_WON
\* exactly when some BLACK count is 0, BLACK_WON exactly when some WHITE count
\* is 0, and UNFINISHED exactly when every count is greater than 0.
C9_StateReflectsCounts ==
    /\ game_state = "WHITE_WON" <=> \E kind \in Kinds : pieces["BLACK"][kind] = 0
    /\ game_state = "BLACK_WON" <=> \E kind \in Kinds : pieces["WHITE"][kind] = 0
    /\ game_state = "UNFINISHED" <=>
           \A color \in Colors, kind \in Kinds : pieces[color][kind] > 0

\* The move just applied took WHITE's last piece of a kind, after BLACK had
\* lost pieces too.
C9_Witness ==
    /\ result = "True"
    /\ \E kind \in Kinds : pieces["WHITE"][kind] = 0
    /\ pieces["BLACK"] # InitialPieces["BLACK"]

-----------------------------------------------------------------------------
(* C10 *)

\* The call names two squares of which the first holds a piece, in an
\* unfinished game: the call reaches the piece's legality check.
C10_ReachesLegality(from_square, to_square) ==
    /\ game_state = "UNFINISHED"
    /\ from_square \in WellFormedTokens
    /\ to_square \in WellFormedTokens
    /\ from_square # to_square
    /\ At(board, algebraic_to_indices(from_square)) # None

\* C10: every applied move moves a piece of the colour whose turn it is onto a
\* square that is empty or holds a piece of the other colour; and a call that
\* reaches the legality check with a piece of the other colour, or onto a
\* piece of the turn's colour, is rejected for that reason whatever the shape
\* of the move.
C10_ColourPrecondition ==
    \A call \in Calls :
        \A out \in {Call(call[1], call[2])} :
            /\ out.result = "True" =>
                   LET mover == At(board, algebraic_to_indices(call[1]))
                       target == At(board, algebraic_to_indices(call[2]))
                   IN  /\ mover.color = player_turn
                       /\ target = None \/ target.color = Opponent(player_turn)
            /\ C10_ReachesLegality(call[1], call[2]) =>
                   LET mover == At(board, algebraic_to_indices(call[1]))
                       target == At(board, algebraic_to_indices(call[2]))
                   IN  /\ mover.color # player_turn =>
                              out.result = "False" /\ out.message = MsgOtherPlayer
                       /\ (mover.color = player_turn /\ target.color = player_turn) =>
                              out.result = "False" /\ out.message = MsgOwnPiece

\* After an applied move, one call moves the opponent's piece and another
\* captures a piece of the turn's colour, each with a shape and a path that
\* are legal for the piece (the same move onto an empty or opposing square
\* passes the piece's check).
C10_Witness ==
    /\ result = "True"
    /\ \E call \in Calls :
           /\ C10_ReachesLegality(call[1], call[2])
           /\ LET from == algebraic_to_indices(call[1])
                  to == algebraic_to_indices(call[2])
                  mover == At(board, from)
              IN  /\ mover.color # player_turn
                  /\ is_valid_move(board, mover, mover.color,
                                   from[1], from[2], to[1], to[2]) = OK
    /\ \E call \in Calls :
           /\ C10_ReachesLegality(call[1], call[2])
           /\ LET from == algebraic_to_indices(call[1])
                  to == algebraic_to_indices(call[2])
                  mover == At(board, from)
                  target == At(board, to)
              IN  /\ mover.color = player_turn
                  /\ target.color = player_turn
                  /\ from # to
                  /\ is_valid_move([board EXCEPT ![to[1]][to[2]] = P(Opponent(player_turn), target.kind)],
                                   mover, player_turn,
                                   from[1], from[2], to[1], to[2]) = OK

-----------------------------------------------------------------------------
(* The legality checks on positions of a game in progress: pawns that have  *)
(* advanced or been captured, one piece out on the board, and               *)
(* piece_to_move.is_valid_move applied to them.                             *)

\* The pawn structures that are drawn are numbered 0..MaxStructure.
MaxStructure == 3

\* How far the eight pawns of a colour have come, column by column: 0 for a
\* pawn on its starting row, 1 or 2 for a pawn that many rows ahead of it, 3
\* for a captured pawn. Pawns of the two colours face each other on a column
\* and on neighbouring columns, and one column is open.
WhiteAdvance == <<0, 2, 1, 2, 3, 0, 2, 1>>

BlackAdvance == <<1, 2, 2, 0, 3, 2, 0, 2>>

\* How far the pawn of a colour on a column has come in structure k: the
\* rows above, moved k columns along the board (the black pawns one column
\* more after every eight structures).
PawnAdvance(color, col, k) ==
    IF color = "WHITE"
    THEN WhiteAdvance[((col + k) % 8) + 1]
    ELSE BlackAdvance[((col + k + (k \div 8)) % 8) + 1]

\* The grid of structure k: the back ranks of ChessBoard.__init__, and each
\* pawn as far up its column as PawnAdvance says.
StructureBoard(k) ==
    [row \in Rows |-> [col \in Cols |->
        IF row = 0 \/ row = 7
        THEN InitialBoard[row][col]
        ELSE IF PawnAdvance("WHITE", col, k) < 3 /\ row = 6 - PawnAdvance("WHITE", col, k)
        THEN P("WHITE", "Pawn")
        ELSE IF PawnAdvance("BLACK", col, k) < 3 /\ row = 1 + PawnAdvance("BLACK", col, k)
        THEN P("BLACK", "Pawn")
        ELSE None]]

\* The rows between the two starting camps.
MiddleSquares == (2..5) \X Cols

\* The square of ChessBoard.__init__ that a piece now standing on `square`
\* has left; a bishop has left the square of its own square colour.
HomeSquare(color, kind, square) ==
    LET row == IF color = "BLACK" THEN 0 ELSE 7
        col == CASE kind = "Rook" -> 0
                 [] kind = "Knight" -> 1
                 [] kind = "Bishop" ->
                        IF (row + 2) % 2 = (square[1] + square[2]) % 2 THEN 2 ELSE 5
                 [] kind = "Queen" -> 3
                 [] kind = "King" -> 4
    IN  <<row, col>>

\* Structure k with one piece of the colour and kind out on `square`.
LegalityBoard(k, color, kind, square) ==
    LET home == HomeSquare(color, kind, square)
    IN  [StructureBoard(k) EXCEPT ![home[1]][home[2]] = None,
                                  ![square[1]][square[2]] = P(color, kind)]

\* self._current_pieces_on_board for the grid b.
PiecesOn(b) ==
    [color \in Colors |->
        [kind \in Kinds |->
            Cardinality({square \in AllSquares : At(b, square) = P(color, kind)})]]

\* A game in progress: it is the turn of the colour whose piece is out.
LegalityInit ==
    \E k \in 0..MaxStructure, color \in Colors, kind \in Kinds \ {"Pawn"},
       square \in MiddleSquares :
        /\ At(StructureBoard(k), square) = None
        /\ board = LegalityBoard(k, color, kind, square)
        /\ pieces = PiecesOn(LegalityBoard(k, color, kind, square))
        /\ player_turn = color
        /\ game_state = "UNFINISHED"
        /\ result = "None"
        /\ moves = 0

\* make_move, line 175: the legality check of a piece of the turn's colour,
\* for a destination on the grid; result records what it returned.
CheckLegality ==
    /\ result = "None"
    /\ \E from \in MiddleSquares, to \in AllSquares :
           /\ At(board, from).color = player_turn
           /\ result' = IF is_valid_move(board, At(board, from), player_turn,
                                         from[1], from[2], to[1], to[2]) = OK
                        THEN "True" ELSE "False"
           /\ UNCHANGED <<board, pieces, player_turn, game_state, moves>>

LegalityNext == CheckLegality

LegalitySpec == LegalityInit /\ [][LegalityNext]_vars

-----------------------------------------------------------------------------
(* Vocabulary of the legality properties *)

\* The squares that hold a piece of the kind and of the turn's colour.
Movers(kind) == {from \in AllSquares : At(board, from) = P(player_turn, kind)}

\* The squares that hold a piece of the kind, of either colour.
Holding(kind) == {from \in AllSquares : At(board, from).kind = kind}

\* The shared colour check passes for a mover of the turn's colour: the to
\* square holds no piece of that colour.
PassesColourCheck(to) == At(board, to).color # player_turn

\* The direction in which the pawns of the turn's colour move, and the row
\* on which they start.
Forward == IF player_turn = "BLACK" THEN 1 ELSE -1

StartRow == IF player_turn = "BLACK" THEN 1 ELSE 6

\* The squares strictly between two squares of one row, column or diagonal.
Between(from, to) ==
    LET d_row == to[1] - from[1]
        d_col == to[2] - from[2]
        n == IF Abs(d_row) > Abs(d_col) THEN Abs(d_row) ELSE Abs(d_col)
    IN  {<<from[1] + (i * d_row) \div n, from[2] + (i * d_col) \div n>> : i \in 1..(n - 1)}

-----------------------------------------------------------------------------
(* C11 *)

\* C11: for a pawn of the turn's colour and a to square that holds no piece
\* of that colour, Pawn.is_valid_move returns True in exactly three cases: one
\* step forward onto an empty square; two steps forward from the pawn's
\* starting row with the square stepped over and the to square both empty;
\* one step diagonally forward onto a piece of the other colour.
C11_PawnMoves ==
    \A from \in Movers("Pawn"), to \in AllSquares :
        PassesColourCheck(to) =>
            ( Pawn_is_valid_move(board, player_turn, player_turn,
                                 from[1], from[2], to[1], to[2]) = OK
              <=> \/ /\ to = <<from[1] + Forward, from[2]>>
                     /\ At(board, to) = None
                  \/ /\ from[1] = StartRow
                     /\ to = <<from[1] + 2 * Forward, from[2]>>
                     /\ At(board, <<from[1] + Forward, from[2]>>) = None
                     /\ At(board, to) = None
                  \/ /\ to[1] = from[1] + Forward
                     /\ Abs(to[2] - from[2]) = 1
                     /\ At(board, to).color = Opponent(player_turn) )

\* The check has been applied in a position where one pawn of the turn's
\* colour stands on its starting row before an occupied square with an empty
\* square behind it, another has a piece of the other colour straight ahead,
\* and another has one diagonally ahead.
C11_Witness ==
    /\ result # "None"
    /\ \E from \in Movers("Pawn") :
           /\ from[1] = StartRow
           /\ At(board, <<from[1] + Forward, from[2]>>) # None
           /\ At(board, <<from[1] + 2 * Forward, from[2]>>) = None
    /\ \E from \in Movers("Pawn") :
           At(board, <<from[1] + Forward, from[2]>>).color = Opponent(player_turn)
    /\ \E from \in Movers("Pawn") :
           /\ from[2] < 7
           /\ At(board, <<from[1] + Forward, from[2] + 1>>).color = Opponent(player_turn)

-----------------------------------------------------------------------------
(* C12 *)

\* C12: for a rook of the turn's colour and a different to square that holds
\* no piece of that colour, Rook.is_valid_move returns True exactly when the
\* move stays in the rook's row or in its column (one of the two differences
\* is 0, not both) and every square strictly between is empty.
C12_RookMoves ==
    \A from \in Movers("Rook"), to \in AllSquares :
        (from # to /\ PassesColourCheck(to)) =>
            ( Rook_is_valid_move(board, player_turn, player_turn,
                                 from[1], from[2], to[1], to[2]) = OK
              <=> /\ (from[1] = to[1]) # (from[2] = to[2])
                  /\ \A square \in Between(from, to) : At(board, square) = None )

\* A rook's move has been accepted in a position where a rook of the turn's
\* colour can capture along its row over two or more empty squares, and
\* has an occupied square between itself and a free square of its column.
C12_Witness ==
    /\ result = "True"
    /\ \E from \in Movers("Rook") :
           /\ \E to \in AllSquares :
                  /\ to[1] = from[1]
                  /\ Abs(to[2] - from[2]) > 2
                  /\ At(board, to).color = Opponent(player_turn)
                  /\ \A square \in Between(from, to) : At(board, square) = None
           /\ \E to \in AllSquares :
                  /\ to[2] = from[2]
                  /\ to # from
                  /\ PassesColourCheck(to)
                  /\ \E square \in Between(from, to) : At(board, square) # None

-----------------------------------------------------------------------------
(* C13 *)

\* C13: for a bishop of the turn's colour and a to square that holds no piece
\* of that colour, Bishop.is_valid_move returns True exactly when the row and
\* the column change by the same non-zero amount and every square strictly
\* between on that diagonal is empty, in each of the four directions.
C13_BishopMoves ==
    \A from \in Movers("Bishop"), to \in AllSquares :
        PassesColourCheck(to) =>
            ( Bishop_is_valid_move(board, player_turn, player_turn,
                                   from[1], from[2], to[1], to[2]) = OK
              <=> /\ Abs(to[1] - from[1]) = Abs(to[2] - from[2])
                  /\ to[1] # from[1]
                  /\ \A square \in Between(from, to) : At(board, square) = None )

\* A bishop's move has been accepted in a position where a bishop of the
\* turn's colour has, in each of the four directions, a square two or more
\* steps away that it may land on, with a free path to one and an occupied
\* square on the way to another.
C13_Witness ==
    /\ result = "True"
    /\ \E from \in Movers("Bishop") :
           /\ \A d_row \in {-1, 1}, d_col \in {-1, 1} :
                  \E to \in AllSquares :
                      /\ Abs(to[1] - from[1]) > 1
                      /\ (to[1] - from[1]) * d_col = (to[2] - from[2]) * d_row
                      /\ (to[1] - from[1]) * d_row > 0
                      /\ PassesColourCheck(to)
           /\ \E to \in AllSquares :
                  /\ Abs(to[1] - from[1]) = Abs(to[2] - from[2])
                  /\ Abs(to[1] - from[1]) > 1
                  /\ PassesColourCheck(to)
                  /\ \A square \in Between(from, to) : At(board, square) = None
           /\ \E to \in AllSquares :
                  /\ Abs(to[1] - from[1]) = Abs(to[2] - from[2])
                  /\ Abs(to[1] - from[1]) > 1
                  /\ PassesColourCheck(to)
                  /\ \E square \in Between(from, to) : At(board, square) # None

-----------------------------------------------------------------------------
(* C14 *)

\* C14: on every grid, for a queen of either colour, either turn and every
\* to square, Queen.is_valid_move returns True exactly when Rook.is_valid_move
\* or Bishop.is_valid_move returns True for a piece of the queen's colour on
\* the queen's square.
C14_QueenIsRookOrBishop ==
    \A from \in Holding("Queen"), to \in AllSquares, turn \in Colors :
            \A color \in {At(board, from).color} :
                ( Queen_is_valid_move(board, color, turn,
                                      from[1], from[2], to[1], to[2]) = OK
                  <=> \/ Rook_is_valid_move(board, color, turn,
                                            from[1], from[2], to[1], to[2]) = OK
                      \/ Bishop_is_valid_move(board, color, turn,
                                              from[1], from[2], to[1], to[2]) = OK )

\* A queen's move has been accepted in a position where a queen of the turn's
\* colour has a move that the rook's check accepts and another that the
\* bishop's check accepts, each over one empty square or more.
C14_Witness ==
    /\ result = "True"
    /\ \E from \in Movers("Queen") \cap MiddleSquares :
           /\ \E to \in AllSquares :
                  /\ Between(from, to) # {}
                  /\ Rook_is_valid_move(board, player_turn, player_turn,
                                        from[1], from[2], to[1], to[2]) = OK
           /\ \E to \in AllSquares :
                  /\ Between(from, to) # {}
                  /\ Bishop_is_valid_move(board, player_turn, player_turn,
                                          from[1], from[2], to[1], to[2]) = OK

-----------------------------------------------------------------------------
(* C15 *)

\* The grid with the occupancy of one square changed: a pawn of the other
\* colour put on it when it is empty, and the square emptied when it is not.
Toggled(b, square) ==
    [b EXCEPT ![square[1]][square[2]] =
        IF @ = None THEN P(Opponent(player_turn), "Pawn") ELSE None]

\* The squares at most two rows and two columns away.
Around(from) ==
    {square \in AllSquares :
        Abs(square[1] - from[1]) <= 2 /\ Abs(square[2] - from[2]) <= 2}

\* C15: for a knight of the turn's colour and a to square that holds no piece
\* of that colour, Knight.is_valid_move returns True exactly when the row and
\* the column change by 1 and 2 or by 2 and 1; and what it returns for a to
\* square around the knight stays the same when the occupancy of any other
\* square around the knight is changed.
C15_KnightMoves ==
    \A from \in Movers("Knight") :
        /\ \A to \in AllSquares :
               PassesColourCheck(to) =>
                   ( Knight_is_valid_move(board, player_turn, player_turn,
                                          from[1], from[2], to[1], to[2]) = OK
                     <=> <<Abs(to[1] - from[1]), Abs(to[2] - from[2])>>
                             \in {<<1, 2>>, <<2, 1>>} )
        /\ \A to \in Around(from) :
               \A returned \in {Knight_is_valid_move(board, player_turn, player_turn,
                                                     from[1], from[2], to[1], to[2])} :
                   \A other \in Around(from) \ {from, to} :
                       Knight_is_valid_move(Toggled(board, other), player_turn, player_turn,
                                            from[1], from[2], to[1], to[2]) = returned

\* A knight's move has been accepted in a position where a knight of the
\* turn's colour is out on the board next to an occupied square, with a free
\* square one jump away beyond it.
C15_Witness ==
    /\ result = "True"
    /\ \E from \in Movers("Knight") \cap MiddleSquares :
           \E d_row \in {-1, 1}, d_col \in {-1, 1} :
               /\ <<from[1] + 2 * d_row, from[2] + d_col>> \in AllSquares
               /\ At(board, <<from[1] + d_row, from[2]>>) # None
               /\ At(board, <<from[1] + 2 * d_row, from[2]>>) # None
               /\ At(board, <<from[1] + 2 * d_row, from[2] + d_col>>) = None

-----------------------------------------------------------------------------
(* C16 *)

\* C16: for a king of either colour, King.is_valid_move returns True exactly
\* when the king is of the turn's colour, the to square is not the king's own
\* square and is at most one row and one column away, and it holds no piece
\* of the turn's colour; in particular it never returns True for the king's
\* own square.
C16_KingMoves ==
    \A from \in Holding("King"), to \in AllSquares :
            /\ King_is_valid_move(board, At(board, from).color, player_turn,
                                  from[1], from[2], to[1], to[2]) = OK
               <=> /\ At(board, from).color = player_turn
                   /\ to # from
                   /\ Abs(to[1] - from[1]) <= 1
                   /\ Abs(to[2] - from[2]) <= 1
                   /\ PassesColourCheck(to)
            /\ King_is_valid_move(board, At(board, from).color, player_turn,
                                  from[1], from[2], from[1], from[2]) # OK

\* A king's move has been accepted in a position where the king of the
\* turn's colour is out on the board with an empty square, a piece of its own
\* colour and a piece of the other colour next to it.
C16_Witness ==
    /\ result = "True"
    /\ \E from \in Movers("King") \cap MiddleSquares :
           \A color \in {"None", player_turn, Opponent(player_turn)} :
               \E to \in AllSquares \ {from} :
                   /\ Abs(to[1] - from[1]) <= 1
                   /\ Abs(to[2] - from[2]) <= 1
                   /\ At(board, to).color = color

-----------------------------------------------------------------------------
(* C17 *)

\* The file letters in the order of the columns, in both cases, and the rank
\* digits in the order of the ranks.
UpperFiles == <<"A", "B", "C", "D", "E", "F", "G", "H">>

LowerFiles == <<"a", "b", "c", "d", "e", "f", "g", "h">>

Ranks == <<"1", "2", "3", "4", "5", "6", "7", "8">>

\* C17: algebraic_to_indices sends the file letters A..H to the columns 0..7
\* and the ranks 8..1 to the rows 0..7 (rank 8 is row 0); for every
\* well-formed token its result lies on the grid, where the board holds a
\* piece or None; a lower-case file letter gives the same square as the
\* upper-case one; and the 64 upper-case tokens are sent one-to-one onto the
\* 64 squares.
C17_AlgebraicToIndices ==
    /\ \A file \in 1..8, rank \in 1..8 :
           /\ algebraic_to_indices(<<UpperFiles[file], Ranks[rank]>>) = <<8 - rank, file - 1>>
           /\ algebraic_to_indices(<<LowerFiles[file], Ranks[rank]>>)
                  = algebraic_to_indices(<<UpperFiles[file], Ranks[rank]>>)
    /\ \A square \in WellFormedTokens :
           /\ algebraic_to_indices(square) \in AllSquares
           /\ At(board, algebraic_to_indices(square))
                  \in {None} \cup {P(color, kind) : color \in Colors, kind \in Kinds}
    /\ \A on_grid \in {{algebraic_to_indices(<<UpperFiles[file], Ranks[rank]>>) :
                            file \in 1..8, rank \in 1..8}} :
           /\ on_grid = AllSquares
           /\ Cardinality(on_grid) = 64

\* Two moves have been applied, the first named with an upper-case and the
\* second with a lower-case file letter: the pawns stand on the squares the
\* conversion gives for E3 and f6, and E2 and f7 are empty.
C17_Witness ==
    /\ result = "True"
    /\ moves = 2
    /\ At(board, <<5, 4>>) = P("WHITE", "Pawn")
    /\ At(board, <<6, 4>>) = None
    /\ At(board, <<2, 5>>) = P("BLACK", "Pawn")
    /\ At(board, <<1, 5>>) = None
    /\ Call(<<"f", "7">>, <<"E", "2">>).message
           = Call(<<"F", "7">>, <<"E", "2">>).message

-----------------------------------------------------------------------------
(* C19 *)

\* The pairs of well-formed tokens that name one square: the same token
\* twice, and the upper-case and the lower-case token of the square in either
\* order.
SameSquareCalls ==
    UNION {{<<<<UpperFiles[file], Ranks[rank]>>, <<UpperFiles[file], Ranks[rank]>>>>,
            <<<<LowerFiles[file], Ranks[rank]>>, <<UpperFiles[file], Ranks[rank]>>>>,
            <<<<UpperFiles[file], Ranks[rank]>>, <<LowerFiles[file], Ranks[rank]>>>>} :
               file \in 1..8, rank \in 1..8}

\* C19: a make_move call whose two tokens name the same square returns False
\* and leaves the grid, the counts, the turn and the game state as they were,
\* also when the tokens differ in the case of the file letter and so are not
\* equal as strings.
C19_SameSquareRejected ==
    \A call \in SameSquareCalls :
        \A out \in {Call(call[1], call[2])} :
            /\ out.result = "False"
            /\ out.board = board
            /\ out.pieces = pieces
            /\ out.player_turn = player_turn
            /\ out.game_state = game_state

\* A move has been applied in an unfinished game, and the king of the turn's
\* colour stands on E1 or E8: named by two tokens that differ in case, the
\* call passes input validation and the king's own check of the distance, and
\* is rejected for the piece of the turn's colour on the to square.
C19_Witness ==
    /\ result = "True"
    /\ game_state = "UNFINISHED"
    /\ \E rank \in {"1", "8"} :
           /\ At(board, algebraic_to_indices(<<"E", rank>>)) = P(player_turn, "King")
           /\ is_valid_input(<<"e", rank>>, <<"E", rank>>) = OK
           /\ Call(<<"e", rank>>, <<"E", rank>>).message = MsgOwnPiece

-----------------------------------------------------------------------------
(* C20 *)

\* C20: in every state the game reaches, when a make_move call returns False,
\* the same call made again at once returns False with the same message, and
\* the grid, the counts, the turn and the game state are the same before the
\* first call, between the two calls and after the second.
C20_RejectionRepeats ==
    [](\A call \in Calls :
          \A first \in {Call(call[1], call[2])} :
              first.result = "False" =>
                  \A second \in {make_move_outcome(first.board, first.pieces,
                                                   first.player_turn, first.game_state,
                                                   call[1], call[2])} :
                      /\ second.result = "False"
                      /\ second.message = first.message
                      /\ <<first.board, first.pieces, first.player_turn, first.game_state>>
                             = game
                      /\ <<second.board, second.pieces, second.player_turn, second.game_state>>
                             = game)

\* A call has been rejected after the first capture of the game, in a
\* position where calls are rejected for each of the reasons that depend on
\* the position: no piece, the other player's piece, a piece of the turn's
\* colour on the to square, an illegal shape and a jump.
C20_Witness ==
    /\ result = "False"
    /\ \E color \in Colors, kind \in Kinds : pieces[color][kind] < InitialPieces[color][kind]
    /\ \A message \in {MsgNoPiece, MsgOtherPlayer, MsgOwnPiece, MsgIllegal, MsgJump} :
           \E call \in Calls : Call(call[1], call[2]).message = message

-----------------------------------------------------------------------------
(* The lookups a make_move call makes: the tokens it hands to                *)
(* algebraic_to_indices, and the <<row, col>> pairs with which it indexes    *)
(* the grid. A lookup that fails (KeyError, IndexError) ends the call.       *)

\* algebraic_to_indices raises for this token: square[0] or square[1] is
\* past the end of the string, or is no key of the dictionary.
algebraic_to_indices_raises(square) ==
    \/ Len(square) < 2
    \/ Upper(square[1]) \notin {"A", "B", "C", "D", "E", "F", "G", "H"}
    \/ square[2] \notin {"8", "7", "6", "5", "4", "3", "2", "1"}

\* make_move: the tokens that reach algebraic_to_indices.
make_move_converts(st, from_square, to_square) ==
    IF st # "UNFINISHED"
    THEN {}
    ELSE IF is_valid_input(from_square, to_square) # OK
         THEN {}
         ELSE {from_square, to_square}

\* The squares the while loops of the path helpers look at, in the order of
\* walk_cols and walk_rows; a loop that has left the grid is not followed.
RECURSIVE walk_cols_reads(_, _, _, _, _, _)
walk_cols_reads(b, row, col, d_row, d_col, to_col) ==
    IF col + d_col = to_col
    THEN {}
    ELSE {<<row + d_row, col + d_col>>} \cup
         IF <<row + d_row, col + d_col>> \in Rows \X Cols
                /\ get_piece_at(b, row + d_row, col + d_col) = None
         THEN walk_cols_reads(b, row + d_row, col + d_col, d_row, d_col, to_col)
         ELSE {}

RECURSIVE walk_rows_reads(_, _, _, _, _)
walk_rows_reads(b, row, col, d_row, to_row) ==
    IF row + d_row = to_row
    THEN {}
    ELSE {<<row + d_row, col>>} \cup
         IF <<row + d_row, col>> \in Rows \X Cols
                /\ get_piece_at(b, row + d_row, col) = None
         THEN walk_rows_reads(b, row + d_row, col, d_row, to_row)
         ELSE {}

\* Piece.check_horizontal_path, check_vertical_path, check_diagonal_path
check_horizontal_path_reads(b, from_row, from_col, to_col) ==
    IF from_col < to_col
    THEN walk_cols_reads(b, from_row, from_col, 0, 1, to_col)
    ELSE IF from_col > to_col
         THEN walk_cols_reads(b, from_row, from_col, 0, -1, to_col)
         ELSE {}

check_vertical_path_reads(b, from_row, from_col, to_row) ==
    IF from_row < to_row
    THEN walk_rows_reads(b, from_row, from_col, 1, to_row)
    ELSE IF from_row > to_row
         THEN walk_rows_reads(b, from_row, from_col, -1, to_row)
         ELSE {}

check_diagonal_path_reads(b, from_row, from_col, to_row, to_col) ==
    IF from_row > to_row /\ from_col < to_col
    THEN walk_cols_reads(b, from_row, from_col, -1, 1, to_col)
    ELSE IF from_row < to_row /\ from_col < to_col
    THEN walk_cols_reads(b, from_row, from_col, 1, 1, to_col)
    ELSE IF from_row < to_row /\ from_col > to_col
    THEN walk_cols_reads(b, from_row, from_col, 1, -1, to_col)
    ELSE IF from_row > to_row /\ from_col > to_col
    THEN walk_cols_reads(b, from_row, from_col, -1, -1, to_col)
    ELSE {}

\* Pawn.is_valid_move after the shared check: d_row is +1 and start_row 1 in
\* the branch for BLACK, -1 and 6 in the branch for WHITE.
Pawn_reads(b, from_row, from_col, to_row, to_col, d_row, start_row) ==
    IF from_row + d_row = to_row /\ from_col = to_col
    THEN {<<to_row, to_col>>}
    ELSE IF from_row = start_row /\ to_row = start_row + 2 * d_row /\ from_col = to_col
    THEN {<<from_row + d_row, to_col>>} \cup
         IF <<from_row + d_row, to_col>> \in Rows \X Cols
                /\ get_piece_at(b, from_row + d_row, to_col) = None
         THEN {<<to_row, to_col>>}
         ELSE {}
    ELSE IF \/ from_row + d_row = to_row /\ from_col + 1 = to_col
            \/ from_row + d_row = to_row /\ from_col - 1 = to_col
    THEN {<<to_row, to_col>>}
    ELSE {}

\* piece_to_move.is_valid_move: the shared check looks at the to square when
\* the piece is of the turn's colour, and the check of the kind follows when
\* the shared check has passed.
is_valid_move_reads(b, piece, turn, from_row, from_col, to_row, to_col) ==
    IF piece.color # turn
    THEN {}
    ELSE {<<to_row, to_col>>} \cup
         IF Piece_is_valid_move(b, piece.color, turn, from_row, from_col, to_row, to_col) # OK
         THEN {}
         ELSE LET straight ==
                      IF to_row = from_row
                      THEN check_horizontal_path_reads(b, from_row, from_col, to_col)
                      ELSE IF to_col = from_col
                           THEN check_vertical_path_reads(b, from_row, from_col, to_row)
                           ELSE {}
                  diagonal ==
                      IF Abs(to_col - from_col) = Abs(to_row - from_row)
                      THEN check_diagonal_path_reads(b, from_row, from_col, to_row, to_col)
                      ELSE {}
              IN  CASE piece.kind = "King" -> {}
                    [] piece.kind = "Knight" -> {}
                    [] piece.kind = "Rook" -> straight
                    [] piece.kind = "Bishop" -> diagonal
                    [] piece.kind = "Queen" ->
                           IF to_row = from_row \/ to_col = from_col
                           THEN straight ELSE diagonal
                    [] piece.kind = "Pawn" ->
                           IF turn = "BLACK"
                           THEN Pawn_reads(b, from_row, from_col, to_row, to_col, 1, 1)
                           ELSE Pawn_reads(b, from_row, from_col, to_row, to_col, -1, 6)

\* make_move: every <<row, col>> with which the call indexes the grid, in
\* get_piece_at, in the legality check and in move_piece. It is asked for
\* only when the conversion of the two tokens does not raise.
make_move_reads(b, turn, st, from_square, to_square) ==
    IF make_move_converts(st, from_square, to_square) = {}
    THEN {}
    ELSE LET from == algebraic_to_indices(from_square)
             to == algebraic_to_indices(to_square)
         IN  {from} \cup
             IF from \notin Rows \X Cols \/ get_piece_at(b, from[1], from[2]) = None
             THEN {}
             ELSE LET checked == is_valid_move_reads(b, get_piece_at(b, from[1], from[2]),
                                                     turn, from[1], from[2], to[1], to[2])
                  IN  checked \cup
                      IF checked \subseteq Rows \X Cols
                             /\ is_valid_move(b, get_piece_at(b, from[1], from[2]), turn,
                                              from[1], from[2], to[1], to[2]) = OK
                      THEN {to, from}
                      ELSE {}

-----------------------------------------------------------------------------
(* C18 *)

\* The token of a square of the grid.
TokenOf(square) == <<UpperFiles[square[2] + 1], Ranks[8 - square[1]]>>

\* The calls that are looked at in a position: every move of a piece of the
\* turn's colour to a square of the grid, and the calls with a lower-case or
\* malformed token.
C18_SquareCalls ==
    {<<TokenOf(from), TokenOf(to)>> :
        from \in {square \in AllSquares : At(board, square).color = player_turn},
        to \in AllSquares}

C18_TokenCalls == Calls \ (Squares \X Squares)

C18_Calls == C18_SquareCalls \cup C18_TokenCalls

\* C18: in every position, a make_move call hands to algebraic_to_indices
\* only tokens for which it does not raise, and none at all when one of the
\* two tokens is not <file A-H or a-h><rank 1-8>; every row and column with
\* which the call indexes the grid lies in 0..7, the square a pawn looks at
\* before a double step and the squares the path helpers walk over included;
\* and the call with a token that is not well-formed returns False.
C18_NeverFaults ==
    [](/\ \A call \in C18_TokenCalls :
              (call[1] \notin WellFormedTokens \/ call[2] \notin WellFormedTokens) =>
                  /\ make_move_converts(game_state, call[1], call[2]) = {}
                  /\ Call(call[1], call[2]).result = "False"
       /\ \A call \in C18_Calls :
              /\ \A square \in make_move_converts(game_state, call[1], call[2]) :
                     ~algebraic_to_indices_raises(square)
              /\ make_move_reads(board, player_turn, game_state, call[1], call[2])
                     \subseteq Rows \X Cols)

\* The legality check has been applied in a position where a pawn of the
\* turn's colour on its starting row looks at the square ahead of it before
\* a double step, a path helper walks over three squares or more, a call
\* with a malformed token and a call with two lower-case tokens are made.
C18_Witness ==
    /\ result # "None"
    /\ \E from \in Movers("Pawn") :
           /\ from[1] = StartRow
           /\ <<from[1] + Forward, from[2]>>
                  \in make_move_reads(board, player_turn, game_state, TokenOf(from),
                                      TokenOf(<<from[1] + 2 * Forward, from[2]>>))
    /\ \E call \in C18_Calls :
           Cardinality(make_move_reads(board, player_turn, game_state, call[1], call[2])) > 4
    /\ \E call \in C18_Calls :
           /\ call[1] \notin WellFormedTokens
           /\ Call(call[1], call[2]).message = MsgBadFrom
    /\ \E call \in C18_Calls :
           /\ call[1] \in LowerSquares
           /\ make_move_converts(game_state, call[1], call[2]) # {}

-----------------------------------------------------------------------------
(* The first moves of a game: make_move called with the moves of the pawns   *)
(* off their starting rows.                                                  *)

\* The number of moves that are applied before the game is left.
MaxOpeningMoves == 2

\* A pawn of either colour moved one, two or three squares straight ahead
\* from its starting row, the file letter in either case.
OpeningCalls ==
    {<<<<letters[file], "2">>, <<letters[file], rank>>>> :
        letters \in {UpperFiles, LowerFiles}, file \in 1..8, rank \in {"3", "4", "5"}}
    \cup
    {<<<<letters[file], "7">>, <<letters[file], rank>>>> :
        letters \in {UpperFiles, LowerFiles}, file \in 1..8, rank \in {"6", "5", "4"}}

OpeningMove ==
    /\ moves < MaxOpeningMoves
    /\ \E call \in OpeningCalls : make_move(call[1], call[2])

OpeningNext == OpeningMove

OpeningSpec == Init /\ [][OpeningNext]_vars

-----------------------------------------------------------------------------
(* C21 *)

\* C21: in a fresh game (no move applied yet), the call that moves a white
\* pawn of any file from rank 2 to rank 4 returns True and leaves the turn
\* with BLACK, the state UNFINISHED and the pawn on rank 4; the call that
\* moves it from rank 2 to rank 5 returns False and changes nothing.
C21_FirstDoubleStep ==
    game = <<InitialBoard, InitialPieces, "WHITE", "UNFINISHED">> =>
        \A letters \in {UpperFiles, LowerFiles}, file \in 1..8 :
            /\ \A out \in {Call(<<letters[file], "2">>, <<letters[file], "4">>)} :
                   /\ out.result = "True"
                   /\ out.player_turn = "BLACK"
                   /\ out.game_state = "UNFINISHED"
                   /\ out.pieces = InitialPieces
                   /\ out.board = [InitialBoard EXCEPT ![6][file - 1] = None,
                                                       ![4][file - 1] = P("WHITE", "Pawn")]
            /\ \A out \in {Call(<<letters[file], "2">>, <<letters[file], "5">>)} :
                   /\ out.result = "False"
                   /\ <<out.board, out.pieces, out.player_turn, out.game_state>> = game

\* The first call of the game has moved the pawn from A2 to A4.
C21_Witness ==
    /\ moves = 1
    /\ result = "True"
    /\ player_turn = "BLACK"
    /\ game_state = "UNFINISHED"
    /\ board = [InitialBoard EXCEPT ![6][0] = None, ![4][0] = P("WHITE", "Pawn")]

-----------------------------------------------------------------------------
(* A game on the queen's file: make_move called with the squares of the      *)
(* white queen and queen's pawn and of the two black knights.                *)

\* The number of moves that are applied before the game is left.
MaxKnightMoves == 7

KnightSquares ==
    {Tok("D", "1"), Tok("D", "2"), Tok("D", "4"), Tok("D", "5"),
     Tok("B", "8"), Tok("C", "6"), Tok("G", "8"), Tok("F", "6")}

KnightMove ==
    /\ moves < MaxKnightMoves
    /\ \E from_square \in KnightSquares, to_square \in KnightSquares :
           make_move(from_square, to_square)

KnightNext == KnightMove

KnightSpec == Init /\ [][KnightNext]_vars

-----------------------------------------------------------------------------
(* C22 *)

\* The counts of BLACK's kinds other than the knight are what they were at
\* the start of the game.
OnlyKnightsCaptured(cnt) ==
    \A kind \in Kinds \ {"Knight"} : cnt["BLACK"][kind] = InitialPieces["BLACK"][kind]

\* C22: a black knight is only captured by a move of WHITE that is applied;
\* the move that captures the first one leaves the state UNFINISHED when it
\* leaves every count above 0, and the move that captures the second one
\* makes the state WHITE_WON at once, whatever the other counts of BLACK are
\* (in particular when no other black piece has been captured).
C22_SecondKnightWins ==
    [][/\ pieces'["BLACK"]["Knight"] < pieces["BLACK"]["Knight"] =>
              /\ player_turn = "WHITE"
              /\ result' = "True"
              /\ pieces'["BLACK"]["Knight"] = pieces["BLACK"]["Knight"] - 1
       /\ (/\ pieces["BLACK"]["Knight"] = 2
           /\ pieces'["BLACK"]["Knight"] = 1
           /\ \A color \in Colors, kind \in Kinds : pieces'[color][kind] > 0) =>
              game_state' = "UNFINISHED"
       /\ (/\ pieces["BLACK"]["Knight"] = 1
           /\ pieces'["BLACK"]["Knight"] = 0) =>
              /\ game_state = "UNFINISHED"
              /\ game_state' = "WHITE_WON"]_vars

\* WHITE has captured both black knights and no other black piece, and has
\* won.
C22_Witness ==
    /\ pieces["BLACK"]["Knight"] = 0
    /\ OnlyKnightsCaptured(pieces)
    /\ \A kind \in Kinds : pieces["WHITE"][kind] > 0
    /\ game_state = "WHITE_WON"
    /\ result = "True"

-----------------------------------------------------------------------------
(* C23 *)

\* C23: in every reachable state each count of pieces_on_board is at least 0
\* and at most the count the board is constructed with.
C23_CountsInRange ==
    \A color \in Colors, kind \in Kinds :
        /\ pieces[color][kind] >= 0
        /\ pieces[color][kind] <= InitialPieces[color][kind]

\* A capture has brought a count down to 0, and a call made after it has
\* been rejected.
C23_Witness ==
    /\ \E color \in Colors, kind \in Kinds : pieces[color][kind] = 0
    /\ game_state # "UNFINISHED"
    /\ result = "False"

-----------------------------------------------------------------------------
(* C24 *)

\* set_game_state with the two tests in the other order: BLACK's counts
\* first, then WHITE's counts overriding.
set_game_state_black_first(st, cnt) ==
    LET st1 == IF \E kind \in Kinds : cnt["BLACK"][kind] = 0 THEN "WHITE_WON" ELSE st
    IN  IF \E kind \in Kinds : cnt["WHITE"][kind] = 0 THEN "BLACK_WON" ELSE st1

\* The (colour, kind) pairs whose count is 0.
ZeroCounts == {pair \in Colors \X Kinds : pieces[pair[1]][pair[2]] = 0}

\* C24: in every reachable state at most one count is 0, so never one of
\* each colour, and set_game_state gives the state it would give with
\* BLACK's counts tested first, from whatever state it starts.
C24_AtMostOneZero ==
    /\ Cardinality(ZeroCounts) <= 1
    /\ ~(/\ \E kind \in Kinds : pieces["WHITE"][kind] = 0
         /\ \E kind \in Kinds : pieces["BLACK"][kind] = 0)
    /\ \A st \in {"UNFINISHED", "WHITE_WON", "BLACK_WON"} :
           set_game_state(st, pieces) = set_game_state_black_first(st, pieces)

\* A count is 0, the game is over and a call has been made after that.
C24_Witness ==
    /\ Cardinality(ZeroCounts) = 1
    /\ game_state = "BLACK_WON"
    /\ result = "False"
    /\ moves < MaxMoves

-----------------------------------------------------------------------------
(* A game of pawns: make_move called with the squares of two neighbouring    *)
(* files between the two rows of pawns.                                      *)

\* The number of moves that are applied before the game is left.
MaxPawnMoves == 5

PawnSquares == {Tok(file, rank) : file \in {"D", "E"}, rank \in {"2", "3", "4", "5", "6", "7"}}

PawnMove ==
    /\ moves < MaxPawnMoves
    /\ \E from_square \in PawnSquares, to_square \in PawnSquares :
           make_move(from_square, to_square)

PawnNext == PawnMove

PawnSpec == Init /\ [][PawnNext]_vars

-----------------------------------------------------------------------------
(* C25 *)

\* The row a colour's pawns are constructed on, and the row in front of it.
PawnRow(color) == IF color = "BLACK" THEN 1 ELSE 6
Ahead(color) == IF color = "BLACK" THEN 1 ELSE -1

\* C25: no call puts a pawn on a square of its own starting row that did not
\* hold it already, and a pawn that leaves a square of that row stands on
\* another row afterwards; so a pawn on its starting row has been there since
\* the board was constructed.  A pawn that advances two rows in one call
\* leaves its starting row, so it has not moved before.
C25_PawnNeverReturns ==
    [][board' # board =>
           \A color \in Colors, col \in Cols :
               /\ At(board', <<PawnRow(color), col>>) = P(color, "Pawn") =>
                      At(board, <<PawnRow(color), col>>) = P(color, "Pawn")
               /\ (/\ At(board, <<PawnRow(color), col>>) = P(color, "Pawn")
                   /\ At(board', <<PawnRow(color), col>>) # P(color, "Pawn")
                   /\ player_turn = color) =>
                      \E square \in AllSquares :
                          /\ square[1] # PawnRow(color)
                          /\ At(board', square) = P(color, "Pawn")
                          /\ At(board, square) # P(color, "Pawn")
               /\ \A row \in Rows :
                      (/\ row + 2 * Ahead(color) \in Rows
                       /\ At(board, <<row, col>>) = P(color, "Pawn")
                       /\ At(board', <<row, col>>) = None
                       /\ At(board, <<row + 2 * Ahead(color), col>>) = None
                       /\ At(board', <<row + 2 * Ahead(color), col>>) = P(color, "Pawn")) =>
                          row = PawnRow(color)]_vars

\* A white pawn has advanced two rows and then one more, a black pawn has
\* advanced two rows, and the other pawns of the two files stand on their
\* starting rows.
C25_Witness ==
    /\ At(board, <<3, 3>>) = P("WHITE", "Pawn")
    /\ At(board, <<6, 3>>) = None
    /\ At(board, <<6, 4>>) = P("WHITE", "Pawn")
    /\ At(board, <<3, 4>>) = P("BLACK", "Pawn")
    /\ At(board, <<1, 4>>) = None
    /\ At(board, <<1, 3>>) = P("BLACK", "Pawn")
    /\ pieces = InitialPieces

-----------------------------------------------------------------------------
(* C26 *)

\* The number of pieces of a colour and kind on a grid, and of all pieces.
OnGrid(b, color, kind) ==
    Cardinality({square \in AllSquares : At(b, square) = P(color, kind)})
AllOnGrid(b) == Cardinality({square \in AllSquares : At(b, square) # None})

\* C26: on every step no count of pieces_on_board grows; when the grid
\* changes, the number of pieces of each colour and kind on it does not grow,
\* the number of all pieces on it drops by at most 1, and the piece that
\* arrives on a square is, in colour and kind, a piece that left another
\* square in the same call.
C26_OnlyRemoved ==
    [][/\ \A color \in Colors, kind \in Kinds : pieces'[color][kind] <= pieces[color][kind]
       /\ board' # board =>
              /\ \A color \in Colors, kind \in Kinds :
                     OnGrid(board', color, kind) <= OnGrid(board, color, kind)
              /\ AllOnGrid(board') <= AllOnGrid(board)
              /\ AllOnGrid(board') >= AllOnGrid(board) - 1
              /\ \A to \in AllSquares :
                     (At(board', to) # At(board, to) /\ At(board', to) # None) =>
                         \E from \in AllSquares \ {to} :
                             /\ At(board, from) = At(board', to)
                             /\ At(board', from) = None]_vars

\* A move onto an empty square and a capture have been applied: one piece is
\* missing from the grid, and a pawn stands off its starting row.
C26_Witness ==
    /\ AllOnGrid(board) = 31
    /\ result = "True"
    /\ \E color \in Colors, square \in (2..5) \X Cols : At(board, square) = P(color, "Pawn")

-----------------------------------------------------------------------------
(* C27 *)

\* C27: the call that changes the game state to WHITE_WON is made when the
\* turn is WHITE's and the one that changes it to BLACK_WON when the turn is
\* BLACK's; the call is applied and the count that is 0 after it is one of
\* the other colour.
C27_WinnerMoved ==
    [][game_state' # game_state =>
           /\ result' = "True"
           /\ game_state' = "WHITE_WON" =>
                  /\ player_turn = "WHITE"
                  /\ \E kind \in Kinds : pieces'["BLACK"][kind] = 0
                  /\ \A kind \in Kinds : pieces'["WHITE"][kind] = pieces["WHITE"][kind]
           /\ game_state' = "BLACK_WON" =>
                  /\ player_turn = "BLACK"
                  /\ \E kind \in Kinds : pieces'["WHITE"][kind] = 0
                  /\ \A kind \in Kinds : pieces'["BLACK"][kind] = pieces["BLACK"][kind]]_vars

\* WHITE has won by a move of its own: the state is WHITE_WON after an
\* applied call and the turn has gone to BLACK.
C27_Witness ==
    /\ game_state = "WHITE_WON"
    /\ result = "True"
    /\ player_turn = "BLACK"
    /\ \E kind \in Kinds : pieces["BLACK"][kind] = 0

-----------------------------------------------------------------------------
(* Positions with a pawn on the far rank: the pawn that a structure has lost *)
(* stands instead on a square of the other colour's back rank, in place of   *)
(* the rook, knight or bishop constructed there.                             *)

\* The row a colour's pawns move towards and cannot leave.
FarRow(color) == IF color = "BLACK" THEN 7 ELSE 0

\* The columns of the back rank that hold a rook, a knight or a bishop.
FarRankCols == {0, 1, 2, 5, 6, 7}

FarRankBoard(k, color, col) ==
    [StructureBoard(k) EXCEPT ![FarRow(color)][col] = P(color, "Pawn")]

FarRankInit ==
    \E k \in 0..MaxStructure, color \in Colors, col \in FarRankCols, turn \in Colors :
        /\ board = FarRankBoard(k, color, col)
        /\ pieces = PiecesOn(FarRankBoard(k, color, col))
        /\ player_turn = turn
        /\ game_state = "UNFINISHED"
        /\ result = "None"
        /\ moves = 0

\* One call of make_move from a square that holds a piece, the file letter
\* of the from square in either case.
FarRankMove ==
    /\ result = "None"
    /\ \E from \in AllSquares, to \in AllSquares, letters \in {UpperFiles, LowerFiles} :
           /\ At(board, from) # None
           /\ make_move(<<letters[from[2] + 1], Ranks[8 - from[1]]>>, TokenOf(to))

FarRankNext == FarRankMove

FarRankSpec == FarRankInit /\ [][FarRankNext]_vars

-----------------------------------------------------------------------------
(* C28 *)

\* The squares of the far rank of its colour that hold a pawn.
FarRankPawns(b) ==
    {square \in AllSquares :
        \E color \in Colors : square[1] = FarRow(color) /\ At(b, square) = P(color, "Pawn")}

\* C28: in every state, make_move from the square of a pawn on its far rank
\* returns False for every destination and changes nothing; and over every
\* call such a pawn stays on its square as a pawn, unless the call is an
\* applied move of the other colour onto that square, which lowers the count
\* of the pawn's colour by 1.
C28_FarRankPawnStuck ==
    /\ [](\A from \in FarRankPawns(board), to \in AllSquares :
              \A out \in {Call(TokenOf(from), TokenOf(to))} :
                  /\ out.result = "False"
                  /\ <<out.board, out.pieces, out.player_turn, out.game_state>> = game)
    /\ [][\A square \in FarRankPawns(board) :
              \/ At(board', square) = At(board, square)
              \/ /\ At(board', square) # None
                 /\ At(board', square).color = player_turn
                 /\ At(board', square).color # At(board, square).color
                 /\ result' = "True"
                 /\ pieces'[At(board, square).color]["Pawn"]
                        = pieces[At(board, square).color]["Pawn"] - 1]_vars

\* A call from the square of a white pawn on row 0 has been rejected, WHITE
\* to move, with the square in front of the pawn's file empty on row 1.
C28_Witness ==
    /\ result = "False"
    /\ player_turn = "WHITE"
    /\ game_state = "UNFINISHED"
    /\ \E square \in FarRankPawns(board) :
           /\ square[1] = 0
           /\ At(board, <<1, square[2]>>) = None

-----------------------------------------------------------------------------
(* C29 *)

\* The squares other than `from` on its row, on its column and on its two
\* diagonals.
OnRow(from) == {to \in AllSquares : to[1] = from[1] /\ to[2] # from[2]}
OnCol(from) == {to \in AllSquares : to[2] = from[2] /\ to[1] # from[1]}
OnDiagonal(from) ==
    {to \in AllSquares : to # from /\ Abs(to[1] - from[1]) = Abs(to[2] - from[2])}

Clear(from, to) == \A square \in Between(from, to) : At(board, square) = None

\* C29: on every board, for every two distinct squares of a row, of a column
\* and of a diagonal, in either order, check_horizontal_path,
\* check_vertical_path and check_diagonal_path respectively finish, look only
\* at squares strictly between the two, and return True exactly when all of
\* those squares are empty.
C29_PathHelpers ==
    [](\A from \in AllSquares :
           /\ \A to \in OnRow(from) :
                  /\ check_horizontal_path(board, from[1], from[2], to[2]) = Clear(from, to)
                  /\ check_horizontal_path_reads(board, from[1], from[2], to[2])
                         \subseteq Between(from, to)
           /\ \A to \in OnCol(from) :
                  /\ check_vertical_path(board, from[1], from[2], to[1]) = Clear(from, to)
                  /\ check_vertical_path_reads(board, from[1], from[2], to[1])
                         \subseteq Between(from, to)
           /\ \A to \in OnDiagonal(from) :
                  /\ check_diagonal_path(board, from[1], from[2], to[1], to[2]) = Clear(from, to)
                  /\ check_diagonal_path_reads(board, from[1], from[2], to[1], to[2])
                         \subseteq Between(from, to))

\* A queen's move has been checked on a board where, from the queen's square,
\* each helper returns True for a square with squares in between and the
\* vertical and diagonal ones False for another; on the same board the
\* horizontal helper returns True for two occupied neighbouring squares and
\* False for two squares of a back rank.
C29_Witness ==
    /\ result # "None"
    /\ \E from \in Movers("Queen") :
           /\ \E to \in OnRow(from) :
                  Abs(to[2] - from[2]) >= 3 /\ check_horizontal_path(board, from[1], from[2], to[2])
           /\ \E to \in OnCol(from) :
                  Abs(to[1] - from[1]) >= 2 /\ check_vertical_path(board, from[1], from[2], to[1])
           /\ \E to \in OnCol(from) : ~check_vertical_path(board, from[1], from[2], to[1])
           /\ \E to \in OnDiagonal(from) :
                  /\ Abs(to[1] - from[1]) >= 3
                  /\ check_diagonal_path(board, from[1], from[2], to[1], to[2])
           /\ \E to \in OnDiagonal(from) :
                  ~check_diagonal_path(board, from[1], from[2], to[1], to[2])
    /\ \E from \in AllSquares, to \in AllSquares :
           /\ from[1] = to[1]
           /\ Abs(to[2] - from[2]) = 1
           /\ At(board, from) # None
           /\ At(board, to) # None
           /\ check_horizontal_path(board, from[1], from[2], to[2])
    /\ \E from \in AllSquares :
           \E to \in OnRow(from) : ~check_horizontal_path(board, from[1], from[2], to[2])

=============================================================================
